---- MODULE Spec2Model ----
(***************************************************************************)
(* Cafe Curator, browser client (src/app.js): the location cache, the      *)
(* result cache, the request gate (inFlight / lastRequestAt) and the       *)
(* watchdog of the Find button, as a state machine over a millisecond      *)
(* clock.  Handlers run to completion (single-threaded event loop); the    *)
(* asynchronous parts are the pending geolocation reads and the            *)
(* outstanding fetches of /api/nearby.                                     *)
(*                                                                         *)
(* Values.  Coordinates are integers in units of 0.0001 degree.  A JS      *)
(* value that may be null/undefined is a sequence of length 0 or 1.        *)
(* localStorage items hold JSON text; every value stored here is built of  *)
(* integers, null, arrays and objects that came out of JSON.parse, on      *)
(* which JSON.parse(JSON.stringify(v)) returns v, so an item is modelled   *)
(* by the value it encodes and a missing item by <<>>.                     *)
(***************************************************************************)
EXTENDS Integers, Sequences, FiniteSets, TLC

\* ---------------------------------------------------------------- constants
CACHE_MINUTES == 10
RESULT_TTL == 5 * 60 * 1000
REQUEST_GAP_MS == 2500
WATCHDOG_MS == 8000
GEO_TIMEOUT_MS == 8000

\* ------------------------------------------------------------------- bounds
StartTime == 1000000
MaxTicks == 2
MaxGeo == 2
MaxCalls == 2

\* clock advances, at the scale of the gate and the watchdog (Spec) and at the
\* scale of the cache lifetimes (SpecTTL)
TickSteps == {2000, 6000}
LongTickSteps == {8000, 300000}

\* cards shown at once (the longest list the proxy answers with here)
MaxShown == 3

Types == {"cafe", "bar"}

\* positions the Geolocation Provider can report, <<lat, lng>> in 0.0001 deg:
\* 40.0001,-73.9999 and 40.0004,-73.9996 share a 3-decimal bucket, 40.0006 does not
Coords == { <<400001, -739999>>, <<400004, -739996>>, <<400006, -739996>> }

Place(id, rating) == [place_id |-> id, rating |-> rating]

\* result lists the proxy can answer with (rating <<>> is a null rating)
ResultLists ==
  { <<>>,
    << Place(1, <<45>>), Place(2, <<>>), Place(3, <<30>>) >> }

VARIABLES
  now,            \* Date.now()
  ticks,          \* number of clock advances so far
  geolocation,    \* navigator.geolocation is available
  inFlight,
  lastRequestAt,
  currentType,
  cachedLocation, \* localStorage 'cachedLocation': <<>> or <<[lat, lng, timestamp]>>
  resultCache,    \* localStorage 'nearby:...': key -> <<>> or <<[ts, data]>>
  saved,          \* localStorage 'saved:<type>': type -> sequence of saved records
  viewMode,       \* localStorage 'viewMode'
  busyTimer,      \* window.__busyTimer: {} or {time at which it fires}
  btnDisabled,    \* findBtn.disabled
  cards,          \* content of the .cards container
  geoPending,     \* pending getCurrentPosition calls: the `now` each closure captured
  fetches,        \* outstanding fetch("/api/nearby") calls
  nCalls,         \* history: number of upstream calls started
  lastCallAt,     \* history: <<>> or <<time the latest upstream call started>>
  writes,         \* history: key -> the writes of its entry: how many, and of the
                  \*   latest the clock at the write, the upstream list, the data
  watchdogFired,  \* history: the watchdog callback has run
  ev,             \* history: the handler that ran last and the path it took
  keyed,          \* cacheKey applied to two requests: <<>> or <<[a, b, ka, kb]>>
  GOOGLE_KEY,     \* backend/server.js: the upstream credential ("" when not set)
  response        \* backend/server.js: <<>> or <<the last request and its answer>>

vars == << now, ticks, geolocation, inFlight, lastRequestAt, currentType,
           cachedLocation, resultCache, saved, viewMode, busyTimer, btnDisabled,
           cards, geoPending, fetches, nCalls, lastCallAt, writes,
           watchdogFired, ev, keyed, GOOGLE_KEY, response >>

\* what no handler of the client writes
outside == << keyed, GOOGLE_KEY, response >>

\* --------------------------------------------------------- pure functions

\* mutant: the magnitude is cut after the third decimal
toFixed3_Truncate(x) ==
  LET a == IF x < 0 THEN -x ELSE x
  IN  [neg |-> x < 0, milli |-> a \div 10]

\* Number.prototype.toFixed(3) on a coordinate given in 0.0001 degree: the sign
\* is printed apart ("-" when x < 0), the magnitude is rounded to thousandths
\* (a magnitude exactly halfway, where the binary value of the double decides,
\* is not among the coordinates used here)
toFixed3(x) ==
  LET a == IF x < 0 THEN -x ELSE x
  IN  [neg |-> x < 0, milli |-> (a + 5) \div 10]

\* mutant: the type is left out of the key
cacheKey_NoType(lat, lng, type) == << "", toFixed3(lat), toFixed3(lng) >>

cacheKey(lat, lng, type) == << type, toFixed3(lat), toFixed3(lng) >>

Keys == { cacheKey(c[1], c[2], t) : c \in Coords, t \in Types }

\* mutant: the TTL taken as 5 seconds (the factor 60 left out)
getCachedResults_Seconds(key) ==
  LET c == resultCache[key]
  IN  IF c # <<>> /\ c[1].ts # 0 /\ now - c[1].ts < 5 * 1000
        THEN << c[1].data >>
        ELSE <<>>

\* mutant: an entry exactly RESULT_TTL old still counts as fresh
getCachedResults_Inclusive(key) ==
  LET c == resultCache[key]
  IN  IF c # <<>> /\ c[1].ts # 0 /\ now - c[1].ts <= RESULT_TTL
        THEN << c[1].data >>
        ELSE <<>>

getCachedResults(key) ==
  LET c == resultCache[key]
  IN  IF c # <<>> /\ c[1].ts # 0 /\ now - c[1].ts < RESULT_TTL
        THEN << c[1].data >>
        ELSE <<>>

\* mutant: an entry already stored under the key is kept
setCachedResults_KeepOld(key, data) ==
  resultCache' = IF resultCache[key] # <<>> THEN resultCache
                 ELSE [resultCache EXCEPT ![key] = << [ts |-> now, data |-> data] >>]

setCachedResults(key, data) ==
  resultCache' = [resultCache EXCEPT ![key] = << [ts |-> now, data |-> data] >>]

RatingOrZero(p) == IF p.rating = <<>> THEN 0 ELSE p.rating[1]

\* results.slice().sort((a,b) => (b.rating||0) - (a.rating||0)); Array.prototype.sort
\* is stable, so an element goes after the elements that do not compare below it
InsertByRating(p, s) ==
  LET k == Cardinality({ i \in 1..Len(s) : RatingOrZero(s[i]) >= RatingOrZero(p) })
  IN  SubSeq(s, 1, k) \o << p >> \o SubSeq(s, k + 1, Len(s))

\* mutant: the list is stored in upstream order
SortByRating_Unsorted(s) == s

RECURSIVE SortByRating(_)
SortByRating(s) ==
  IF s = <<>> THEN <<>>
  ELSE InsertByRating(s[Len(s)], SortByRating(SubSeq(s, 1, Len(s) - 1)))

\* the .cards container: `view` tells which swipe handlers the cards carry
\* ("results": onSave = savePlace, from displayCards; "saved": swipeleft removes,
\* from showSaved; "empty": no card)
displayCards(places) == [view |-> "results", msg |-> "", places |-> places]
renderEmpty(msg) == [view |-> "empty", msg |-> msg, places |-> <<>>]

\* ------------------------------------------------------------------ Init
Init ==
  /\ now = StartTime
  /\ ticks = 0
  /\ geolocation \in BOOLEAN
  /\ inFlight = FALSE
  /\ lastRequestAt = 0
  /\ currentType = "cafe"
  /\ cachedLocation = <<>>
  /\ resultCache = [k \in Keys |-> <<>>]
  /\ saved = [t \in Types |-> <<>>]
  /\ viewMode = "find"
  /\ busyTimer = {}
  /\ btnDisabled = FALSE
  /\ cards = renderEmpty("")
  /\ geoPending = <<>>
  /\ fetches = {}
  /\ nCalls = 0
  /\ lastCallAt = <<>>
  /\ writes = [k \in Keys |-> [n |-> 0, at |-> 0, from |-> <<>>, data |-> <<>>]]
  /\ watchdogFired = FALSE
  /\ ev = [op |-> "load", path |-> ""]
  /\ keyed = <<>>
  /\ GOOGLE_KEY = "key"
  /\ response = <<>>

\* --------------------------------------------------------------- handlers

\* mutant: setBusy(false) clears the timer and leaves the button as it is
setBusy_CancelOnly(isBusy) ==
  /\ btnDisabled' = IF isBusy THEN TRUE ELSE btnDisabled
  /\ busyTimer' = IF isBusy THEN { now + WATCHDOG_MS } ELSE {}

setBusy(isBusy) ==
  /\ btnDisabled' = isBusy
  /\ busyTimer' = IF isBusy THEN { now + WATCHDOG_MS } ELSE {}

\* the rate gate, as getLocation and useLocation both test it
gateClosed == inFlight \/ now - lastRequestAt < REQUEST_GAP_MS

\* useLocation, cache hit: displayCards(cached); setBusy(false); return
useLocationHit(cached, op) ==
  /\ cards' = displayCards(cached)
  /\ setBusy(FALSE)
  /\ ev' = [op |-> op, path |-> "hit"]
  /\ UNCHANGED << inFlight, lastRequestAt, fetches, nCalls, lastCallAt >>

\* useLocation, gate closed: return
useLocationGated(op) ==
  /\ ev' = [op |-> op, path |-> "gated"]
  /\ UNCHANGED << cards, btnDisabled, busyTimer, inFlight, lastRequestAt,
                  fetches, nCalls, lastCallAt >>

\* useLocation, from inFlight = true up to the await of fetch
useLocationStart(key, op) ==
  /\ nCalls < MaxCalls
  /\ inFlight' = TRUE
  /\ lastRequestAt' = now
  /\ setBusy(TRUE)
  /\ fetches' = fetches \cup { [key |-> key, startedAt |-> now] }
  /\ nCalls' = nCalls + 1
  /\ lastCallAt' = << now >>
  /\ ev' = [op |-> op, path |-> "fetch"]
  /\ UNCHANGED cards

\* mutant: the gate tests inFlight alone
useLocation_NoGap(lat, lng, type, op) ==
  LET key == cacheKey(lat, lng, type)
      cached == getCachedResults(key)
  IN  IF cached # <<>> THEN useLocationHit(cached[1], op)
      ELSE IF inFlight THEN useLocationGated(op)
      ELSE useLocationStart(key, op)

\* mutant: the gate tests the gap alone
useLocation_NoInFlight(lat, lng, type, op) ==
  LET key == cacheKey(lat, lng, type)
      cached == getCachedResults(key)
  IN  IF cached # <<>> THEN useLocationHit(cached[1], op)
      ELSE IF now - lastRequestAt < REQUEST_GAP_MS THEN useLocationGated(op)
      ELSE useLocationStart(key, op)

\* mutant: the gate is tested before the result cache is looked up
useLocation_GateFirst(lat, lng, type, op) ==
  LET key == cacheKey(lat, lng, type)
      cached == getCachedResults(key)
  IN  IF gateClosed THEN useLocationGated(op)
      ELSE IF cached # <<>> THEN useLocationHit(cached[1], op)
      ELSE useLocationStart(key, op)

\* useLocation(lat, lng), up to the await of fetch; `type` is currentType as the
\* call reads it, `op` names the caller
useLocation(lat, lng, type, op) ==
  LET key == cacheKey(lat, lng, type)
      cached == getCachedResults(key)
  IN  IF cached # <<>> THEN useLocationHit(cached[1], op)
      ELSE IF gateClosed THEN useLocationGated(op)
      ELSE useLocationStart(key, op)

\* mutant: an entry exactly CACHE_MINUTES old still counts as fresh
cachedLocationValid_Inclusive ==
  /\ cachedLocation # <<>>
  /\ cachedLocation[1].timestamp # 0
  /\ now - cachedLocation[1].timestamp <= CACHE_MINUTES * 60 * 1000

\* getLocation's test of the location cache item: cache.timestamp is set and
\* less than CACHE_MINUTES old
cachedLocationValid ==
  /\ cachedLocation # <<>>
  /\ cachedLocation[1].timestamp # 0
  /\ now - cachedLocation[1].timestamp < CACHE_MINUTES * 60 * 1000

\* mutant: getLocation without its gate (the gate of useLocation is kept)
getLocationBody_NoGate(type) ==
  /\ viewMode' = "find"
  /\ IF cachedLocationValid
       THEN /\ useLocation(cachedLocation[1].lat, cachedLocation[1].lng, type, "getLocation")
            /\ UNCHANGED geoPending
     ELSE IF ~geolocation
       THEN /\ cards' = renderEmpty("Geolocation not supported by this browser.")
            /\ ev' = [op |-> "getLocation", path |-> "unsupported"]
            /\ UNCHANGED << btnDisabled, busyTimer, inFlight, lastRequestAt,
                            fetches, nCalls, lastCallAt, geoPending >>
     ELSE /\ Len(geoPending) < MaxGeo
          /\ geoPending' = Append(geoPending, now)
          /\ ev' = [op |-> "getLocation", path |-> "geo"]
          /\ UNCHANGED << cards, btnDisabled, busyTimer, inFlight, lastRequestAt,
                          fetches, nCalls, lastCallAt >>
  /\ UNCHANGED << now, ticks, geolocation, outside, cachedLocation, resultCache, saved,
                  writes, watchdogFired >>

\* the body of getLocation, with `type` the value of currentType during the call
\* (onTypeChange runs it too, so ev names it getLocation for both)
getLocationBody(type) ==
  /\ viewMode' = "find"
  /\ IF gateClosed
       THEN /\ ev' = [op |-> "getLocation", path |-> "dropped"]
            /\ UNCHANGED << cards, btnDisabled, busyTimer, inFlight, lastRequestAt,
                            fetches, nCalls, lastCallAt, geoPending >>
     ELSE IF cachedLocationValid
       THEN /\ useLocation(cachedLocation[1].lat, cachedLocation[1].lng, type, "getLocation")
            /\ UNCHANGED geoPending
     ELSE IF ~geolocation
       THEN /\ cards' = renderEmpty("Geolocation not supported by this browser.")
            /\ ev' = [op |-> "getLocation", path |-> "unsupported"]
            /\ UNCHANGED << btnDisabled, busyTimer, inFlight, lastRequestAt,
                            fetches, nCalls, lastCallAt, geoPending >>
     ELSE /\ Len(geoPending) < MaxGeo
          /\ geoPending' = Append(geoPending, now)
          /\ ev' = [op |-> "getLocation", path |-> "geo"]
          /\ UNCHANGED << cards, btnDisabled, busyTimer, inFlight, lastRequestAt,
                          fetches, nCalls, lastCallAt >>
  /\ UNCHANGED << now, ticks, geolocation, outside, cachedLocation, resultCache, saved,
                  writes, watchdogFired >>

getLocation ==
  /\ getLocationBody(currentType)
  /\ UNCHANGED currentType

onTypeChange(val) ==
  /\ val # currentType
  /\ currentType' = val
  /\ getLocationBody(val)

RemoveAt(s, i) == SubSeq(s, 1, i - 1) \o SubSeq(s, i + 1, Len(s))

\* success callback of getCurrentPosition for the i-th pending read
geoSuccess(i, pos) ==
  /\ i \in 1..Len(geoPending)
  /\ cachedLocation' = << [lat |-> pos[1], lng |-> pos[2], timestamp |-> geoPending[i]] >>
  /\ useLocation(pos[1], pos[2], currentType, "geoSuccess")
  /\ geoPending' = RemoveAt(geoPending, i)
  /\ UNCHANGED << now, ticks, geolocation, outside, currentType, resultCache, saved, viewMode,
                  writes, watchdogFired >>

\* mutant: the error callback clears the in-flight flag as well
geoError_ClearInFlight(i) ==
  /\ i \in 1..Len(geoPending)
  /\ setBusy(FALSE)
  /\ inFlight' = FALSE
  /\ cards' = renderEmpty("Location access denied or unavailable.")
  /\ geoPending' = RemoveAt(geoPending, i)
  /\ ev' = [op |-> "geoError", path |-> ""]
  /\ UNCHANGED << now, ticks, geolocation, outside, lastRequestAt, currentType,
                  cachedLocation, resultCache, saved, viewMode, fetches, nCalls,
                  lastCallAt, writes, watchdogFired >>

\* error callback of getCurrentPosition (denied, unavailable, timeout)
geoError(i) ==
  /\ i \in 1..Len(geoPending)
  /\ setBusy(FALSE)
  /\ cards' = renderEmpty("Location access denied or unavailable.")
  /\ geoPending' = RemoveAt(geoPending, i)
  /\ ev' = [op |-> "geoError", path |-> ""]
  /\ UNCHANGED << now, ticks, geolocation, outside, inFlight, lastRequestAt, currentType,
                  cachedLocation, resultCache, saved, viewMode, fetches, nCalls,
                  lastCallAt, writes, watchdogFired >>

\* mutant: the entry is stored under the key of the type selected when the
\* response arrives
fetchOk_KeyAtResponse(f, results) ==
  /\ f \in fetches
  /\ IF results = <<>>
       THEN /\ cards' = renderEmpty("No places found nearby. Try another type or try again.")
            /\ UNCHANGED << resultCache, writes >>
       ELSE LET sorted == SortByRating(results)
            IN  /\ setCachedResults(<< currentType, f.key[2], f.key[3] >>, sorted)
                /\ writes' = [writes EXCEPT ![f.key] =
                                [n |-> @.n + 1, at |-> now, from |-> results, data |-> sorted]]
                /\ cards' = displayCards(sorted)
  /\ inFlight' = FALSE
  /\ setBusy(FALSE)
  /\ fetches' = fetches \ { f }
  /\ ev' = [op |-> "fetchOk", path |-> IF results = <<>> THEN "empty" ELSE "stored"]
  /\ UNCHANGED << now, ticks, geolocation, outside, lastRequestAt, currentType, cachedLocation,
                  saved, viewMode, geoPending, nCalls, lastCallAt, watchdogFired >>

\* useLocation after the await: res.ok and json.results = results
fetchOk(f, results) ==
  /\ f \in fetches
  /\ IF results = <<>>
       THEN /\ cards' = renderEmpty("No places found nearby. Try another type or try again.")
            /\ UNCHANGED << resultCache, writes >>
       ELSE LET sorted == SortByRating(results)
            IN  /\ setCachedResults(f.key, sorted)
                /\ writes' = [writes EXCEPT ![f.key] =
                                [n |-> @.n + 1, at |-> now, from |-> results, data |-> sorted]]
                /\ cards' = displayCards(sorted)
  /\ inFlight' = FALSE
  /\ setBusy(FALSE)
  /\ fetches' = fetches \ { f }
  /\ ev' = [op |-> "fetchOk", path |-> IF results = <<>> THEN "empty" ELSE "stored"]
  /\ UNCHANGED << now, ticks, geolocation, outside, lastRequestAt, currentType, cachedLocation,
                  saved, viewMode, geoPending, nCalls, lastCallAt, watchdogFired >>

\* mutant: the failure path leaves inFlight as it is
fetchFail_NoReset(f, kind) ==
  /\ f \in fetches
  /\ cards' = renderEmpty("Failed")
  /\ setBusy(FALSE)
  /\ fetches' = fetches \ { f }
  /\ ev' = [op |-> "fetchFail", path |-> kind]
  /\ UNCHANGED << now, ticks, geolocation, outside, inFlight, lastRequestAt, currentType,
                  cachedLocation, resultCache, saved, viewMode, geoPending, nCalls,
                  lastCallAt, writes, watchdogFired >>

\* useLocation after the await: !res.ok ("http"), or fetch / json.results threw ("network")
fetchFail(f, kind) ==
  /\ f \in fetches
  /\ cards' = renderEmpty(IF kind = "http" THEN "Failed: msg"
                                           ELSE "Failed to fetch places. Please try again.")
  /\ inFlight' = FALSE
  /\ setBusy(FALSE)
  /\ fetches' = fetches \ { f }
  /\ ev' = [op |-> "fetchFail", path |-> kind]
  /\ UNCHANGED << now, ticks, geolocation, outside, lastRequestAt, currentType, cachedLocation,
                  resultCache, saved, viewMode, geoPending, nCalls, lastCallAt,
                  writes, watchdogFired >>

\* the setTimeout callback armed by setBusy(true)
watchdog ==
  /\ \E t \in busyTimer : now >= t
  /\ btnDisabled' = FALSE
  /\ inFlight' = FALSE
  /\ busyTimer' = {}
  /\ watchdogFired' = TRUE
  /\ ev' = [op |-> "watchdog", path |-> ""]
  /\ UNCHANGED << now, ticks, geolocation, outside, lastRequestAt, currentType, cachedLocation,
                  resultCache, saved, viewMode, cards, geoPending, fetches, nCalls,
                  lastCallAt, writes >>

\* the clock advances by d; a pending timer fires when it is due, so the clock
\* does not pass the time it is set for; a geolocation read ends (with a position
\* or with the TIMEOUT error) within the timeout getCurrentPosition was given, the
\* permission prompt that timeout does not cover being already answered
Tick(d) ==
  /\ ticks < MaxTicks
  /\ \A t \in busyTimer : now + d <= t
  /\ \A i \in 1..Len(geoPending) : now + d <= geoPending[i] + GEO_TIMEOUT_MS
  /\ now' = now + d
  /\ ticks' = ticks + 1
  /\ ev' = [op |-> "tick", path |-> ""]
  /\ UNCHANGED << geolocation, outside, inFlight, lastRequestAt, currentType, cachedLocation,
                  resultCache, saved, viewMode, busyTimer, btnDisabled, cards,
                  geoPending, fetches, nCalls, lastCallAt, writes, watchdogFired >>

\* the record displayCards hands to savePlace: place_id and `rating ?? 'N/A'`
\* (NA stands for the string 'N/A'; name and photo are carried along unread)
NA == -1
SavedRecord(place) ==
  [place_id |-> place.place_id,
   rating |-> IF place.rating = <<>> THEN NA ELSE place.rating[1]]

\* saved.find(p => p.place_id === id) finds an entry
HasId(list, id) == \E i \in 1..Len(list) : list[i].place_id = id

\* mutant: the record is pushed without the scan for its id
savePlace_NoScan(place) ==
  /\ saved' = [saved EXCEPT ![currentType] = Append(@, place)]
  /\ ev' = [op |-> "savePlace", path |-> "saved"]

\* mutant: one list for all types (the record is pushed to every list)
savePlace_EveryType(place) ==
  IF ~HasId(saved[currentType], place.place_id)
    THEN /\ saved' = [t \in Types |-> Append(saved[t], place)]
         /\ ev' = [op |-> "savePlace", path |-> "saved"]
    ELSE /\ UNCHANGED saved
         /\ ev' = [op |-> "savePlace", path |-> "duplicate"]

\* savePlace(place): the list of the current type is read, scanned for the id,
\* and written back with the record pushed when the id is not there
savePlace(place) ==
  IF ~HasId(saved[currentType], place.place_id)
    THEN /\ saved' = [saved EXCEPT ![currentType] = Append(@, place)]
         /\ ev' = [op |-> "savePlace", path |-> "saved"]
    ELSE /\ UNCHANGED saved
         /\ ev' = [op |-> "savePlace", path |-> "duplicate"]

\* the onSave callback of the i-th card of displayCards (swipe or drag right)
onSave(i) ==
  /\ cards.view = "results"
  /\ i \in 1..Len(cards.places)
  /\ savePlace(SavedRecord(cards.places[i]))
  /\ UNCHANGED << now, ticks, geolocation, outside, inFlight, lastRequestAt, currentType,
                  cachedLocation, resultCache, viewMode, busyTimer, btnDisabled,
                  cards, geoPending, fetches, nCalls, lastCallAt, writes,
                  watchdogFired >>

\* mutant: the entries before the first one of the id are dropped with it
FilterOutId_FromFirst(list, id) ==
  IF HasId(list, id)
    THEN LET k == CHOOSE i \in 1..Len(list) :
                    /\ list[i].place_id = id
                    /\ \A j \in 1..(i - 1) : list[j].place_id # id
         IN  SubSeq(list, k + 1, Len(list))
    ELSE list

\* arr.filter(p => p.place_id !== id)
RECURSIVE FilterOutId(_, _)
FilterOutId(list, id) ==
  IF list = <<>> THEN <<>>
  ELSE IF Head(list).place_id = id THEN FilterOutId(Tail(list), id)
  ELSE << Head(list) >> \o FilterOutId(Tail(list), id)

\* the swipeleft handler of the i-th card of showSaved: the list of the type
\* current at the swipe is read, filtered and written back
swipeleft(i) ==
  /\ cards.view = "saved"
  /\ i \in 1..Len(cards.places)
  /\ saved' = [saved EXCEPT ![currentType] = FilterOutId(@, cards.places[i].place_id)]
  /\ ev' = [op |-> "swipeleft", path |-> ""]
  /\ UNCHANGED << now, ticks, geolocation, outside, inFlight, lastRequestAt, currentType,
                  cachedLocation, resultCache, viewMode, busyTimer, btnDisabled,
                  cards, geoPending, fetches, nCalls, lastCallAt, writes,
                  watchdogFired >>

showSaved ==
  /\ viewMode' = "saved"
  /\ cards' = IF saved[currentType] = <<>>
                THEN renderEmpty("No saved places yet")
                ELSE [view |-> "saved", msg |-> "", places |-> saved[currentType]]
  /\ ev' = [op |-> "showSaved", path |-> ""]
  /\ UNCHANGED << now, ticks, geolocation, outside, inFlight, lastRequestAt, currentType,
                  cachedLocation, resultCache, saved, busyTimer, btnDisabled,
                  geoPending, fetches, nCalls, lastCallAt, writes, watchdogFired >>

\* the search flow (the saved lists are not touched: see NextSaved)
Next ==
  \/ getLocation
  \/ \E val \in Types : onTypeChange(val)
  \/ \E i \in 1..MaxGeo, pos \in Coords : geoSuccess(i, pos)
  \/ \E i \in 1..MaxGeo : geoError(i)
  \/ \E f \in fetches, results \in ResultLists : fetchOk(f, results)
  \/ \E f \in fetches, kind \in {"http", "network"} : fetchFail(f, kind)
  \/ watchdog
  \/ \E d \in TickSteps : Tick(d)

Spec == Init /\ [][Next]_vars

\* the long time scale: a user who stays at one position while the caches age
\* (the clock advances by 8 s, the watchdog delay, or by 5 minutes)
StationaryCoords == { <<400004, -739996>> }

NextTTL ==
  \/ getLocation
  \/ \E val \in Types : onTypeChange(val)
  \/ \E i \in 1..MaxGeo, pos \in StationaryCoords : geoSuccess(i, pos)
  \/ \E i \in 1..MaxGeo : geoError(i)
  \/ \E f \in fetches, results \in ResultLists : fetchOk(f, results)
  \/ \E f \in fetches, kind \in {"http", "network"} : fetchFail(f, kind)
  \/ watchdog
  \/ \E d \in LongTickSteps : Tick(d)

SpecTTL == Init /\ [][NextTTL]_vars

\* the saved lists.  The page has completed its first search: the position is
\* cached, the results are stored and displayed, nothing is saved yet (the state
\* Spec reaches by getLocation, the success callback and the completion of the
\* call, all at StartTime).  SpecSaved follows the user through the cards in the
\* 2.5 s after that search started: the clock stands still, so a Find or a type
\* change is turned away by the gate and starts nothing asynchronous.
FirstPos == << 400004, -739996 >>
FirstList == << Place(1, <<45>>), Place(2, <<>>), Place(3, <<30>>) >>
FirstKey == cacheKey(FirstPos[1], FirstPos[2], "cafe")

InitSaved ==
  /\ now = StartTime
  /\ ticks = 0
  /\ geolocation = TRUE
  /\ inFlight = FALSE
  /\ lastRequestAt = StartTime
  /\ currentType = "cafe"
  /\ cachedLocation = << [lat |-> FirstPos[1], lng |-> FirstPos[2], timestamp |-> StartTime] >>
  /\ resultCache = [k \in Keys |->
                      IF k = FirstKey
                        THEN << [ts |-> StartTime, data |-> SortByRating(FirstList)] >>
                        ELSE <<>>]
  /\ saved = [t \in Types |-> <<>>]
  /\ viewMode = "find"
  /\ busyTimer = {}
  /\ btnDisabled = FALSE
  /\ cards = displayCards(SortByRating(FirstList))
  /\ geoPending = <<>>
  /\ fetches = {}
  /\ nCalls = 1
  /\ lastCallAt = << StartTime >>
  /\ writes = [k \in Keys |->
                 IF k = FirstKey
                   THEN [n |-> 1, at |-> StartTime, from |-> FirstList,
                         data |-> SortByRating(FirstList)]
                   ELSE [n |-> 0, at |-> 0, from |-> <<>>, data |-> <<>>]]
  /\ watchdogFired = FALSE
  /\ ev = [op |-> "fetchOk", path |-> "stored"]
  /\ keyed = <<>>
  /\ GOOGLE_KEY = "key"
  /\ response = <<>>

NextSaved ==
  \/ getLocation
  \/ \E val \in Types : onTypeChange(val)
  \/ \E i \in 1..MaxShown : onSave(i)
  \/ \E i \in 1..MaxShown : swipeleft(i)
  \/ showSaved

SpecSaved == InitSaved /\ [][NextSaved]_vars

\* cacheKey as a function: it is applied to two requests, drawn from positions
\* on both sides of 0 and of a bucket border (-0.0006 .. 0.0006, 39.9996 ..
\* 40.0006; longitudes at -73.9996 and on both sides of the Greenwich meridian)
KeyLats == { -6, -4, 4, 6, 399996, 400004, 400006 }
KeyLngs == { -739996, -4, 4 }
KeyRequests == [type : Types, lat : KeyLats, lng : KeyLngs]

applyCacheKey(a, b) ==
  /\ keyed' = << [a |-> a, b |-> b,
                  ka |-> cacheKey(a.lat, a.lng, a.type),
                  kb |-> cacheKey(b.lat, b.lng, b.type)] >>
  /\ UNCHANGED << now, ticks, geolocation, inFlight, lastRequestAt, currentType,
                  cachedLocation, resultCache, saved, viewMode, busyTimer,
                  btnDisabled, cards, geoPending, fetches, nCalls, lastCallAt,
                  writes, watchdogFired, ev, GOOGLE_KEY, response >>

NextKey == \E a, b \in KeyRequests : applyCacheKey(a, b)

SpecKey == Init /\ [][NextKey]_vars

\* progress.  Time does not stop: whatever else happens, the clock reaches the
\* time a pending timer is set for (a geolocation read may stay pending
\* meanwhile, its timeout not running while the permission prompt is open), and
\* a timer that is due runs its callback.  SpecLive moves the clock from one
\* timer to the next; callbacks and user requests come at any point between.
TickToTimer ==
  /\ \E t \in busyTimer : now < t /\ now' = t
  /\ ev' = [op |-> "tick", path |-> ""]
  /\ UNCHANGED << ticks, geolocation, outside, inFlight, lastRequestAt, currentType,
                  cachedLocation, resultCache, saved, viewMode, busyTimer,
                  btnDisabled, cards, geoPending, fetches, nCalls, lastCallAt,
                  writes, watchdogFired >>

NextLive ==
  \/ getLocation
  \/ \E val \in Types : onTypeChange(val)
  \/ \E i \in 1..MaxGeo, pos \in StationaryCoords : geoSuccess(i, pos)
  \/ \E i \in 1..MaxGeo : geoError(i)
  \/ \E f \in fetches, results \in ResultLists : fetchOk(f, results)
  \/ \E f \in fetches, kind \in {"http", "network"} : fetchFail(f, kind)
  \/ watchdog
  \/ TickToTimer

SpecLive ==
  /\ Init
  /\ [][NextLive]_vars
  /\ WF_vars(TickToTimer)
  /\ WF_vars(watchdog)

\* --------------------------------------------------- backend/server.js
\* A query parameter is <<>> (not given), <<"">> (given empty) or <<text>>.
LatParams == { <<>>, <<"">>, <<"40.0004">> }
LngParams == { <<>>, <<"">>, <<"-73.9996">> }
RefParams == { <<>>, <<"">>, <<"photo1">> }
NearbyQueries == [lat : LatParams, lng : LngParams]
PhotoQueries == [ref : RefParams]

\* JS falsiness of a query parameter: undefined or the empty string
Falsy(q) == q = <<>> \/ q = <<"">>

\* what axios.get brings back from the Places API: http is the HTTP status (0:
\* no response at all; axios rejects for 0 and for a status outside 2xx), and
\* for a 2xx answer the body's status, error_message and results
UpstreamNearby ==
  { [http |-> 200, status |-> st, message |-> m, results |-> r] :
      st \in { <<>>, <<"OK">>, <<"ZERO_RESULTS">>, <<"REQUEST_DENIED">> },
      m \in { <<>>, <<"denied">> },
      r \in { <<>>, << Place(1, <<45>>), Place(2, <<>>) >> } }
  \cup
  { [http |-> h, status |-> <<>>, message |-> <<>>, results |-> <<>>] :
      h \in { 0, 403, 503 } }

UpstreamPhoto == { [http |-> h] : h \in { 0, 200, 404 } }

\* the environment: GOOGLE_API_KEY and API_KEY, each unset ("") or set
EnvKeys == [GOOGLE_API_KEY : {"", "g"}, API_KEY : {"", "a"}]

\* const GOOGLE_KEY = process.env.GOOGLE_API_KEY || process.env.API_KEY || ""
KeyOfEnv(env) ==
  IF env.GOOGLE_API_KEY # "" THEN env.GOOGLE_API_KEY
  ELSE IF env.API_KEY # "" THEN env.API_KEY
  ELSE ""

\* an answer: the HTTP status and the body, as the JSON fields or the text sent
\* (a field not sent is <<>>); `upstream` is <<>> when axios.get was not called
Answer(route, query, upstream, status, body) ==
  [route |-> route, query |-> query, upstream |-> upstream,
   status |-> status, body |-> body]

JsonError(msg) ==
  [error |-> <<msg>>, status |-> <<>>, message |-> <<>>, results |-> <<>>, text |-> <<>>]
Text(msg) ==
  [error |-> <<>>, status |-> <<>>, message |-> <<>>, results |-> <<>>, text |-> <<msg>>]

\* (r.data.results || []).map(...): place_id, rating ?? null (name, vicinity and
\* the photo reference are carried along)
NearbyItems(results) ==
  [i \in 1..Len(results) |-> Place(results[i].place_id, results[i].rating)]

\* the answer of /api/nearby once axios.get has returned or thrown
nearbyAfterUpstream(q, up) ==
  IF up.http = 200
    THEN IF up.status # <<>> /\ up.status # <<"">> /\ up.status # <<"OK">>
           THEN Answer("nearby", q, <<up>>, 502,
                       [error |-> <<"Google Places error">>,
                        status |-> up.status,
                        message |-> IF Falsy(up.message)
                                      THEN <<"Unknown error from Google">>
                                      ELSE up.message,
                        results |-> <<>>, text |-> <<>>])
           ELSE Answer("nearby", q, <<up>>, 200,
                       [error |-> <<>>, status |-> <<>>, message |-> <<>>,
                        results |-> << NearbyItems(up.results) >>, text |-> <<>>])
    ELSE Answer("nearby", q, <<up>>, IF up.http = 0 THEN 500 ELSE up.http,
                JsonError("Upstream failed"))

\* mutant: the credential is not tested
nearbyAnswer_NoKeyTest(q, up) ==
  IF Falsy(q.lat) \/ Falsy(q.lng)
    THEN Answer("nearby", q, <<>>, 400, JsonError("lat,lng required"))
  ELSE nearbyAfterUpstream(q, up)

\* mutant: every upstream failure is answered with the generic 500
nearbyAnswer_Generic(q, up) ==
  IF Falsy(q.lat) \/ Falsy(q.lng)
    THEN Answer("nearby", q, <<>>, 400, JsonError("lat,lng required"))
  ELSE IF GOOGLE_KEY = ""
    THEN Answer("nearby", q, <<>>, 500, JsonError("Server is missing GOOGLE_API_KEY"))
  ELSE IF up.http = 200 /\ (up.status = <<>> \/ up.status = <<"OK">>)
    THEN nearbyAfterUpstream(q, up)
  ELSE Answer("nearby", q, <<up>>, 500, JsonError("Upstream failed"))

\* GET /api/nearby
nearbyAnswer(q, up) ==
  IF Falsy(q.lat) \/ Falsy(q.lng)
    THEN Answer("nearby", q, <<>>, 400, JsonError("lat,lng required"))
  ELSE IF GOOGLE_KEY = ""
    THEN Answer("nearby", q, <<>>, 500, JsonError("Server is missing GOOGLE_API_KEY"))
  ELSE nearbyAfterUpstream(q, up)

\* GET /api/photo
photoAnswer(q, up) ==
  IF Falsy(q.ref)
    THEN Answer("photo", q, <<>>, 400, Text("Missing ref"))
  ELSE IF GOOGLE_KEY = ""
    THEN Answer("photo", q, <<>>, 500, Text("Server is missing GOOGLE_API_KEY"))
  ELSE IF up.http = 200
    THEN Answer("photo", q, <<up>>, 200, Text("image"))
  ELSE Answer("photo", q, <<up>>, 500, Text("Photo fetch failed"))

apiNearby(q, up) ==
  /\ response' = << nearbyAnswer(q, up) >>
  /\ UNCHANGED << now, ticks, geolocation, inFlight, lastRequestAt, currentType,
                  cachedLocation, resultCache, saved, viewMode, busyTimer,
                  btnDisabled, cards, geoPending, fetches, nCalls, lastCallAt,
                  writes, watchdogFired, ev, keyed, GOOGLE_KEY >>

apiPhoto(q, up) ==
  /\ response' = << photoAnswer(q, up) >>
  /\ UNCHANGED << now, ticks, geolocation, inFlight, lastRequestAt, currentType,
                  cachedLocation, resultCache, saved, viewMode, busyTimer,
                  btnDisabled, cards, geoPending, fetches, nCalls, lastCallAt,
                  writes, watchdogFired, ev, keyed, GOOGLE_KEY >>

\* the server started with any environment, next to a client that has just loaded
InitServer ==
  /\ now = StartTime
  /\ ticks = 0
  /\ geolocation \in BOOLEAN
  /\ inFlight = FALSE
  /\ lastRequestAt = 0
  /\ currentType = "cafe"
  /\ cachedLocation = <<>>
  /\ resultCache = [k \in Keys |-> <<>>]
  /\ saved = [t \in Types |-> <<>>]
  /\ viewMode = "find"
  /\ busyTimer = {}
  /\ btnDisabled = FALSE
  /\ cards = renderEmpty("")
  /\ geoPending = <<>>
  /\ fetches = {}
  /\ nCalls = 0
  /\ lastCallAt = <<>>
  /\ writes = [k \in Keys |-> [n |-> 0, at |-> 0, from |-> <<>>, data |-> <<>>]]
  /\ watchdogFired = FALSE
  /\ ev = [op |-> "load", path |-> ""]
  /\ keyed = <<>>
  /\ GOOGLE_KEY \in { KeyOfEnv(env) : env \in EnvKeys }
  /\ response = <<>>

NextServer ==
  \/ \E q \in NearbyQueries, up \in UpstreamNearby : apiNearby(q, up)
  \/ \E q \in PhotoQueries, up \in UpstreamPhoto : apiPhoto(q, up)

SpecServer == InitServer /\ [][NextServer]_vars

\* ------------------------------------------------------------------ claims

\* the step is a user request: getLocation, or onTypeChange, which runs it
\* (both leave ev.op = "getLocation", tested first as the cheaper conjunct)
UserRequest ==
  /\ ev'.op = "getLocation"
  /\ getLocation \/ \E val \in Types : onTypeChange(val)

\* the step is getLocation itself
GetLocationStep == ev'.op = "getLocation" /\ getLocation

\* the step is the success callback of a geolocation read delivering pos
GeoSuccessStep(pos) ==
  /\ ev'.op = "geoSuccess"
  /\ \E i \in 1..MaxGeo : geoSuccess(i, pos)

\* the step is the completion of call f with HTTP success and the list r
FetchOkStep(f, r) == ev'.op = "fetchOk" /\ fetchOk(f, r)

\* the location cache entry is present and less than 10 minutes old
LocationFresh ==
  cachedLocation # <<>> /\ now - cachedLocation[1].timestamp < 10 * 60 * 1000

\* the result cache holds an entry under k that is less than 5 minutes old
ResultFresh(k) ==
  resultCache[k] # <<>> /\ now - resultCache[k][1].ts < 5 * 60 * 1000

\* C1: any two upstream calls are started at least 2500 ms apart, and a user
\* request made less than 2500 ms after the latest upstream call started starts
\* no call and leaves nothing pending that could start one later (no geolocation
\* read, no timer): it is dropped, not queued.
C1_CallsSpacedAndDropped ==
  [][ /\ (nCalls' > nCalls /\ lastCallAt # <<>>)
           => now' - lastCallAt[1] >= 2500
      /\ (UserRequest /\ lastCallAt # <<>> /\ now - lastCallAt[1] < 2500)
           => /\ nCalls' = nCalls
              /\ fetches' = fetches
              /\ geoPending' = geoPending
              /\ busyTimer' = busyTimer
              /\ inFlight' = inFlight
              /\ lastRequestAt' = lastRequestAt ]_vars

\* a second call has started, and a request made 2000 ms after it, with the flag
\* clear and nothing in the result cache for it, was dropped
C1_Witness ==
  /\ ev = [op |-> "getLocation", path |-> "dropped"]
  /\ nCalls = 2
  /\ ~inFlight
  /\ now - lastCallAt[1] = 2000
  /\ cachedLocation # <<>>
  /\ getCachedResults(cacheKey(cachedLocation[1].lat, cachedLocation[1].lng,
                               currentType)) = <<>>

\* C2 as stated: at most one upstream call is outstanding in every reachable state.
C2_AtMostOneOutstanding == Cardinality(fetches) <= 1

\* C2 amended: as long as the watchdog has not fired, at most one upstream call
\* is outstanding.
C2_OneOutstandingUntilWatchdog ==
  ~watchdogFired => Cardinality(fetches) <= 1

\* a request made 6000 ms after the call started, the call still outstanding,
\* was turned away by the inFlight flag alone
C2_Witness ==
  /\ ~watchdogFired
  /\ Cardinality(fetches) = 1
  /\ inFlight
  /\ ev.path \in {"dropped", "gated"}
  /\ now - lastRequestAt >= 2500

\* C3 as stated: inFlight does not stay true: the watchdog armed with it resets it
\* 8 s later at the latest, so it is never true more than 8000 ms after it was set.
C3_InFlightResetWithin8s ==
  inFlight => now - lastRequestAt <= 8000

\* the key of the cached location for type t
LocKey(t) == cacheKey(cachedLocation[1].lat, cachedLocation[1].lng, t)

\* the step displayed the data stored under k and started no upstream call
Served(k) ==
  /\ cards' = displayCards(resultCache[k][1].data)
  /\ nCalls' = nCalls
  /\ fetches' = fetches

\* C4 as stated: once an entry is stored, every later getLocation for the same
\* type and bucket made less than 5 minutes after is served the cached results
\* and starts no upstream call, however soon after the first request it comes.
C4_AnyLaterRequestServed ==
  [][ (GetLocationStep /\ LocationFresh /\ ResultFresh(LocKey(currentType)))
        => (ev'.path = "hit" /\ Served(LocKey(currentType))) ]_vars

\* C4 amended: such a request is served the cached results and starts no upstream
\* call when it passes getLocation's gate (inFlight false and at least 2500 ms
\* since lastRequestAt), with the cached location or with a reading delivered
\* while the entry is less than 5 minutes old.
C4_GatePassingRequestServed ==
  [][ /\ (GetLocationStep /\ ~inFlight /\ now - lastRequestAt >= 2500
            /\ LocationFresh /\ ResultFresh(LocKey(currentType)))
        => (ev'.path = "hit" /\ Served(LocKey(currentType)))
      /\ \A pos \in Coords :
           (GeoSuccessStep(pos) /\ ResultFresh(cacheKey(pos[1], pos[2], currentType)))
             => (ev'.path = "hit" /\ Served(cacheKey(pos[1], pos[2], currentType))) ]_vars

\* a getLocation 6000 ms after the entry was stored displayed the stored data
C4_Witness ==
  /\ ev = [op |-> "getLocation", path |-> "hit"]
  /\ cachedLocation # <<>>
  /\ resultCache[LocKey(currentType)] # <<>>
  /\ now - resultCache[LocKey(currentType)][1].ts = 6000
  /\ cards = displayCards(resultCache[LocKey(currentType)][1].data)
  /\ nCalls = 1

\* C5: an entry written at time T is returned as stored by a lookup at T' with
\* T' - T < 5 minutes and is absent for a lookup with T' - T >= 5 minutes.
C5_ResultTTL ==
  \A k \in Keys :
    writes[k].n > 0 =>
      /\ now - writes[k].at < 5 * 60 * 1000 => getCachedResults(k) = << writes[k].data >>
      /\ now - writes[k].at >= 5 * 60 * 1000 => getCachedResults(k) = <<>>

\* an entry exactly 5 minutes old is absent while a younger one is returned
C5_Witness ==
  \E k, j \in Keys :
    /\ writes[k].n > 0 /\ now - writes[k].at = 5 * 60 * 1000
    /\ getCachedResults(k) = <<>>
    /\ writes[j].n > 0 /\ now - writes[j].at < 5 * 60 * 1000
    /\ getCachedResults(j) = << writes[j].data >>

\* C6: a user request that passes the gate uses the cached coordinates and does
\* not invoke the Geolocation Provider when the location entry is less than 10
\* minutes old, and invokes the provider (where the browser has one) when the
\* entry is absent or at least 10 minutes old.
C6_LocationCacheDecides ==
  [][ (UserRequest /\ ~inFlight /\ now - lastRequestAt >= 2500) =>
        /\ LocationFresh =>
             /\ geoPending' = geoPending
             /\ cachedLocation' = cachedLocation
             /\ \/ ResultFresh(LocKey(currentType')) /\ Served(LocKey(currentType'))
                \/ /\ ~ResultFresh(LocKey(currentType'))
                   /\ fetches' = fetches \cup
                        { [key |-> LocKey(currentType'), startedAt |-> now] }
        /\ (~LocationFresh /\ geolocation) =>
             /\ geoPending' = Append(geoPending, now)
             /\ fetches' = fetches ]_vars

\* a request found the location entry exactly 10 minutes old and invoked the provider
C6_Witness ==
  /\ ev = [op |-> "getLocation", path |-> "geo"]
  /\ cachedLocation # <<>>
  /\ now - cachedLocation[1].timestamp = 10 * 60 * 1000
  /\ geoPending = << now >>

\* C7 as stated: every location entry stored carries the clock value of the moment
\* the reading was delivered.
C7_TimestampIsReadTime ==
  [][ cachedLocation' # cachedLocation => cachedLocation'[1].timestamp = now' ]_vars

Count(s, x) == Cardinality({ i \in 1..Len(s) : s[i] = x })

IsPermutation(a, b) ==
  /\ Len(a) = Len(b)
  /\ \A i \in 1..Len(a) : Count(a, a[i]) = Count(b, a[i])

Score(p) == IF p.rating = <<>> THEN 0 ELSE p.rating[1]

Ratings(s) == [i \in 1..Len(s) |-> s[i].rating]

\* C8: the data of every stored entry is a permutation of the upstream list in
\* non-increasing order of rating, a null rating counting as 0; upstream ratings
\* [4.5, null, 3.0] are stored as [4.5, 3.0, null].
C8_StoredSortedByRating ==
  \A k \in Keys :
    resultCache[k] # <<>> =>
      LET d == resultCache[k][1].data
          u == writes[k].from
      IN  /\ IsPermutation(d, u)
          /\ \A i \in 1..(Len(d) - 1) : Score(d[i]) >= Score(d[i + 1])
          /\ Ratings(u) = << <<45>>, <<>>, <<30>> >>
               => Ratings(d) = << <<45>>, <<30>>, <<>> >>

\* an entry made from upstream ratings [4.5, null, 3.0] is stored
C8_Witness ==
  \E k \in Keys :
    /\ resultCache[k] # <<>>
    /\ Ratings(writes[k].from) = << <<45>>, <<>>, <<30>> >>
    /\ Ratings(resultCache[k][1].data) = << <<45>>, <<30>>, <<>> >>

\* C9: when useLocation finds an entry less than 5 minutes old for the current
\* type and bucket it displays that data, starts no upstream call and leaves
\* inFlight and lastRequestAt unchanged, also with inFlight true or less than
\* 2500 ms since lastRequestAt.
C9_CacheHitBypassesGate ==
  [][ /\ \A pos \in Coords :
           (GeoSuccessStep(pos) /\ ResultFresh(cacheKey(pos[1], pos[2], currentType)))
             => /\ Served(cacheKey(pos[1], pos[2], currentType))
                /\ inFlight' = inFlight
                /\ lastRequestAt' = lastRequestAt
      /\ (UserRequest /\ ~inFlight /\ now - lastRequestAt >= 2500
            /\ LocationFresh /\ ResultFresh(LocKey(currentType')))
           => /\ Served(LocKey(currentType'))
              /\ inFlight' = inFlight
              /\ lastRequestAt' = lastRequestAt ]_vars

\* a reading delivered while a call was in flight was answered from the cache
C9_Witness ==
  /\ ev = [op |-> "geoSuccess", path |-> "hit"]
  /\ inFlight
  /\ fetches # {}
  /\ cards.places # <<>>

\* C10 as stated: every search that completes without error, the empty list
\* included, stores an entry under its key.
C10_EverySuccessStores ==
  [][ ev'.op = "fetchOk" => \A f \in fetches, r \in ResultLists :
        FetchOkStep(f, r) =>
          (resultCache'[f.key] # <<>> /\ resultCache'[f.key][1].ts = now) ]_vars

\* C10 amended: a search that completes without error with a non-empty list stores
\* an entry under its key, replacing the one already there; with an empty list it
\* stores nothing and the result cache is unchanged.
C10_NonEmptySuccessStores ==
  [][ ev'.op = "fetchOk" => \A f \in fetches, r \in ResultLists :
        FetchOkStep(f, r) =>
          IF r # <<>>
            THEN /\ resultCache'[f.key] # <<>>
                 /\ resultCache'[f.key][1].ts = now
                 /\ IsPermutation(resultCache'[f.key][1].data, r)
                 /\ \A k \in Keys \ { f.key } : resultCache'[k] = resultCache[k]
            ELSE resultCache' = resultCache ]_vars

\* a second successful search has just written a key that was written before
C10_Witness ==
  /\ ev = [op |-> "fetchOk", path |-> "stored"]
  /\ \E k \in Keys :
       /\ writes[k].n = 2
       /\ resultCache[k] # <<>>
       /\ resultCache[k][1].ts = now

\* the step is the failure of call f: a non-2xx status ("http") or an exception
\* of fetch or of reading the body ("network")
FetchFailStep(f, kind) == ev'.op = "fetchFail" /\ fetchFail(f, kind)

\* C11: a search that ends in failure writes or changes no result cache entry,
\* resets inFlight to false and starts nothing that could call upstream again
\* for it (no call, no geolocation read, no timer); and every upstream call is
\* started by a user request or by the callback of a geolocation read.
C11_FailureIsTerminal ==
  [][ /\ ev'.op = "fetchFail" => \A f \in fetches, kind \in {"http", "network"} :
           FetchFailStep(f, kind) =>
             /\ resultCache' = resultCache
             /\ inFlight' = FALSE
             /\ nCalls' = nCalls
             /\ fetches' = fetches \ { f }
             /\ geoPending' = geoPending
             /\ busyTimer' = {}
      /\ nCalls' > nCalls => ev'.op \in {"getLocation", "geoSuccess"} ]_vars

\* a search has failed with an entry of an earlier search in the result cache
C11_Witness ==
  /\ ev.op = "fetchFail"
  /\ ~inFlight
  /\ nCalls = 2
  /\ \E k \in Keys : resultCache[k] # <<>>

\* the step is the onSave callback of the i-th displayed card
OnSaveStep(i) == ev'.op = "savePlace" /\ onSave(i)

\* the step is the swipeleft handler of the i-th card of the saved view
SwipeLeftStep(i) == ev'.op = "swipeleft" /\ swipeleft(i)

\* no two entries of the list have the same place id
NoDuplicateIds(list) ==
  \A i, j \in 1..Len(list) : i # j => list[i].place_id # list[j].place_id

\* C12: after any sequence of saves and removals no saved list holds two entries
\* with the same place id, and saving an id that the list of the current
\* category already holds leaves the saved lists unchanged.
C12_NoDuplicateIds ==
  [][ /\ \A t \in Types : NoDuplicateIds(saved'[t])
      /\ \A i \in 1..MaxShown :
           (/\ OnSaveStep(i)
            /\ \E j \in 1..Len(saved[currentType]) :
                  saved[currentType][j].place_id = cards.places[i].place_id)
             => saved' = saved ]_vars

\* a place was saved again in a category that holds it next to another place
C12_Witness ==
  /\ ev = [op |-> "savePlace", path |-> "duplicate"]
  /\ Len(saved[currentType]) >= 2

\* C13: a removal leaves the list of the category without the entries of the id,
\* the other entries in the order they had, and leaves it as it was when the id
\* is not in it; the other categories are not touched; a save of an id that is
\* not in the list puts the record at the end.
C13_RemoveKeepsOrderSaveAppends ==
  [][ /\ \A i \in 1..MaxShown :
           SwipeLeftStep(i) =>
             LET id == cards.places[i].place_id
                 Keep(p) == p.place_id # id
                 old == saved[currentType]
             IN  /\ saved'[currentType] = SelectSeq(old, Keep)
                 /\ (\A j \in 1..Len(old) : old[j].place_id # id)
                      => saved'[currentType] = old
                 /\ \A t \in Types \ { currentType } : saved'[t] = saved[t]
      /\ \A i \in 1..MaxShown :
           (OnSaveStep(i) /\ ev'.path = "saved") =>
             /\ Len(saved'[currentType]) = Len(saved[currentType]) + 1
             /\ SubSeq(saved'[currentType], 1, Len(saved[currentType]))
                  = saved[currentType]
             /\ saved'[currentType][Len(saved[currentType]) + 1].place_id
                  = cards.places[i].place_id
             /\ \A t \in Types \ { currentType } : saved'[t] = saved[t] ]_vars

\* the middle one of three saved places was removed and the other two are left
\* in their order
C13_Witness ==
  /\ ev.op = "swipeleft"
  /\ cards.view = "saved"
  /\ Len(cards.places) = 3
  /\ saved[currentType] = << cards.places[1], cards.places[3] >>

\* x (in 0.0001 degree) rounded to the nearest thousandth of a degree, as a number
Round3(x) == IF x >= 0 THEN (x + 5) \div 10 ELSE -((-x + 5) \div 10)

\* the thousandth-of-a-degree bucket [k/1000, (k+1)/1000) that x lies in
Trunc3(x) == x \div 10

\* what the fixed-point text of x shows: the sign and the rounded magnitude
SignAndRound3(x) ==
  [minus |-> x < 0, thousandths |-> Round3(IF x < 0 THEN -x ELSE x)]

\* C14 as stated: two requests have the same key exactly when they have the same
\* type and their coordinates round to the same numbers at 3 decimals.
C14_KeyOfRoundedNumbers ==
  keyed # <<>> =>
    LET p == keyed[1]
    IN  (p.ka = p.kb) <=> /\ p.a.type = p.b.type
                          /\ Round3(p.a.lat) = Round3(p.b.lat)
                          /\ Round3(p.a.lng) = Round3(p.b.lng)

\* C14 amended: two requests have the same key exactly when they have the same
\* type and their coordinates have the same fixed-point text at 3 decimals, the
\* sign included: -0.0004 prints as -0.000 and 0.0004 as 0.000, so they differ.
C14_KeyOfFixedPointText ==
  keyed # <<>> =>
    LET p == keyed[1]
    IN  (p.ka = p.kb) <=> /\ p.a.type = p.b.type
                          /\ SignAndRound3(p.a.lat) = SignAndRound3(p.b.lat)
                          /\ SignAndRound3(p.a.lng) = SignAndRound3(p.b.lng)

\* latitudes -0.0004 and 0.0004, both rounding to 0, were keyed apart
C14_Witness ==
  /\ keyed # <<>>
  /\ keyed[1].a.type = keyed[1].b.type
  /\ keyed[1].a.lng = keyed[1].b.lng
  /\ keyed[1].a.lat = -4
  /\ keyed[1].b.lat = 4
  /\ keyed[1].ka # keyed[1].kb

\* C18 as stated: the coordinates are truncated to 3 decimals, so two requests of
\* one type whose coordinates lie in the same bucket [k/1000, (k+1)/1000) have
\* the same key.
C18_KeyTruncates ==
  keyed # <<>> =>
    LET p == keyed[1]
    IN  (/\ p.a.type = p.b.type
         /\ Trunc3(p.a.lat) = Trunc3(p.b.lat)
         /\ Trunc3(p.a.lng) = Trunc3(p.b.lng)) => p.ka = p.kb

\* C18 amended: the coordinates are rounded to the nearest thousandth, the sign
\* kept: two requests of one type whose coordinates have the same sign and round
\* to the same thousandth have the same key (39.9996 and 40.0004), and x.0004
\* and x.0006, which round apart, have different keys.
C18_KeyRoundsToNearest ==
  keyed # <<>> =>
    LET p == keyed[1]
    IN  /\ (/\ p.a.type = p.b.type
             /\ SignAndRound3(p.a.lat) = SignAndRound3(p.b.lat)
             /\ SignAndRound3(p.a.lng) = SignAndRound3(p.b.lng)) => p.ka = p.kb
        /\ (p.a.lat = 400004 /\ p.b.lat = 400006) => p.ka # p.kb
        /\ (p.a.lat = 399996 /\ p.b.lat = 400004 /\ p.a.type = p.b.type
               /\ p.a.lng = p.b.lng) => p.ka = p.kb

\* 40.0004 and 40.0006, of one bucket of truncation, were keyed apart
C18_Witness ==
  /\ keyed # <<>>
  /\ keyed[1].a.type = keyed[1].b.type
  /\ keyed[1].a.lng = keyed[1].b.lng
  /\ keyed[1].a.lat = 400004
  /\ keyed[1].b.lat = 400006
  /\ keyed[1].ka # keyed[1].kb

\* C15: the Find button does not stay disabled for ever: whenever it is disabled
\* it is enabled again later, whatever fails and however the callbacks interleave
\* (also when the call never completes).
C15_ButtonEnabledAgain == btnDisabled ~> ~btnDisabled

\* the watchdog has enabled the button again while the call was still outstanding
C15_Witness ==
  /\ ev.op = "watchdog"
  /\ ~btnDisabled
  /\ fetches # {}

\* the credential is absent and the proxy has answered a request
AnsweredWithoutKey == GOOGLE_KEY = "" /\ response # <<>>

ConfigError == <<"Server is missing GOOGLE_API_KEY">>

\* the request carries the parameters its route requires
HasRequired(a) ==
  IF a.route = "nearby" THEN ~Falsy(a.query.lat) /\ ~Falsy(a.query.lng)
  ELSE ~Falsy(a.query.ref)

\* the 500 carrying the configuration error, in the route's body format
IsConfigError(a) ==
  /\ a.status = 500
  /\ IF a.route = "nearby" THEN a.body.error = ConfigError /\ a.body.text = <<>>
     ELSE a.body.text = ConfigError /\ a.body.error = <<>>

\* C16 (as stated): with the credential absent, every request to /api/nearby
\* and /api/photo, whatever its query parameters, is answered with 500 carrying
\* the configuration error and no upstream call is made.
C16_EveryRequestConfigError ==
  AnsweredWithoutKey =>
    /\ IsConfigError(response[1])
    /\ response[1].upstream = <<>>

\* C16 (amended): with the credential absent no upstream call is made; a request
\* that carries its required parameters (lat and lng, resp. ref) is answered with
\* 500 carrying the configuration error, and a request that lacks one of them is
\* answered with 400 before the credential is looked at.
C16_ConfigErrorAfterParameterCheck ==
  AnsweredWithoutKey =>
    /\ response[1].upstream = <<>>
    /\ HasRequired(response[1]) => IsConfigError(response[1])
    /\ ~HasRequired(response[1]) =>
         /\ response[1].status = 400
         /\ IF response[1].route = "nearby"
              THEN response[1].body.error = <<"lat,lng required">>
              ELSE response[1].body.text = <<"Missing ref">>

\* a search request with lat and lng reached a proxy without credential
C16_Witness ==
  /\ AnsweredWithoutKey
  /\ response[1].route = "nearby"
  /\ HasRequired(response[1])
  /\ response[1].status = 500

\* the proxy called the Places API for a search request
CalledNearby ==
  /\ response # <<>>
  /\ response[1].route = "nearby"
  /\ response[1].upstream # <<>>

\* the body status of a 2xx upstream answer is one the proxy treats as an error
BodyNotOK(up) ==
  up.http = 200 /\ ~Falsy(up.status) /\ up.status # <<"OK">>

\* the 502 of the proxy carries the upstream status and message
PassedThrough(a, up) ==
  /\ a.status = 502
  /\ a.body.error = <<"Google Places error">>
  /\ a.body.status = up.status
  /\ a.body.message = IF Falsy(up.message) THEN <<"Unknown error from Google">>
                                          ELSE up.message

\* C17 (as stated): a non-OK upstream answer (non-OK body status or non-success
\* HTTP status) to a valid search request gives 502 with the upstream
\* status/message passed through; 200 with results only when the upstream
\* status is OK.
C17_NonOKGives502 ==
  CalledNearby =>
    LET a == response[1]
        up == response[1].upstream[1]
    IN /\ (up.http # 200 \/ BodyNotOK(up)) => PassedThrough(a, up)
       /\ a.status = 200 => up.status = <<"OK">>

\* C17 (amended): a 2xx upstream answer whose body status is present and not OK
\* gives 502 with the upstream status passed through and the upstream message
\* (or "Unknown error from Google"); a 2xx answer whose body status is OK or
\* missing gives 200 with the results array; an upstream HTTP error is answered
\* with the upstream's HTTP status, and no response at all with 500, both with
\* the generic "Upstream failed" and nothing passed through.
C17_BodyStatusGives502 ==
  CalledNearby =>
    LET a == response[1]
        up == response[1].upstream[1]
    IN /\ BodyNotOK(up) => PassedThrough(a, up)
       /\ (up.http = 200 /\ ~BodyNotOK(up)) =>
            /\ a.status = 200
            /\ a.body.results = << NearbyItems(up.results) >>
            /\ a.body.error = <<>>
       /\ up.http # 200 =>
            /\ a.status = IF up.http = 0 THEN 500 ELSE up.http
            /\ a.body.error = <<"Upstream failed">>
            /\ a.body.status = <<>> /\ a.body.message = <<>>
       /\ a.status = 200 => up.http = 200 /\ up.status \in { <<>>, <<"OK">> }

\* the Places API denied a request and said why; the proxy answered 502
C17_Witness ==
  /\ CalledNearby
  /\ response[1].upstream[1].status = <<"REQUEST_DENIED">>
  /\ response[1].upstream[1].message = <<"denied">>
  /\ response[1].status = 502

\* what the requests made for key k have fetched last: nothing, or the list of
\* the latest response to a request for k, with the time it arrived
LastFetchedFor(k) ==
  IF writes[k].n = 0 THEN <<>>
  ELSE << [ts |-> writes[k].at, data |-> writes[k].data] >>

\* C19: the entry under a key holds what a request for that key's type and
\* bucket fetched, whatever currentType is when the response arrives and
\* whether or not the watchdog fired and a newer request started meanwhile;
\* of two responses for one key the later one is the entry.
C19_EntryUnderRequestKey ==
  \A k \in Keys : resultCache[k] = LastFetchedFor(k)

\* a response has just replaced the entry of an earlier response for the same
\* key, after the watchdog fired and with another type selected by now
C19_Witness ==
  /\ ev = [op |-> "fetchOk", path |-> "stored"]
  /\ watchdogFired
  /\ \E k \in Keys :
       /\ k[1] # currentType
       /\ writes[k].n = 2
       /\ writes[k].at = now
       /\ resultCache[k] # <<>>

\* C20 (as stated): whenever inFlight is true a watchdog timer armed at most 8 s
\* earlier is pending; no operation cancels the watchdog and leaves inFlight true.
C20_InFlightHasWatchdog ==
  inFlight =>
    \E d \in busyTimer : d - WATCHDOG_MS <= now /\ now <= d

\* the place type whose search produced the result cards on display: in
\* SpecSaved the cards come from the one search made before, for FirstKey
CardsType == FirstKey[1]

\* C21 (as stated): a place saved by swiping a result card goes to the end of
\* the saved list of the type whose search produced the card (or is in it
\* already), also when the type was changed after the cards were shown and the
\* follow-up search was dropped by the gate.
C21_SavedUnderSearchedType ==
  [][ \A i \in 1..MaxShown :
        OnSaveStep(i) =>
          /\ HasId(saved'[CardsType], cards.places[i].place_id)
          /\ \A t \in Types \ { CardsType } : saved'[t] = saved[t] ]_vars

\* C22 (as stated): getLocation does not invoke the Geolocation Provider while
\* an earlier invocation is pending: at most one geolocation read is
\* outstanding in every reachable state.
C22_OneGeolocationRead == Len(geoPending) <= 1

\* the step is the error callback of the i-th pending geolocation read
GeoErrorStep(i) == ev'.op = "geoError" /\ geoError(i)

\* the step starts no search and leaves both caches and the gate state alone
NothingStartedOrStored ==
  /\ nCalls' = nCalls
  /\ fetches' = fetches
  /\ cachedLocation' = cachedLocation
  /\ resultCache' = resultCache
  /\ inFlight' = inFlight
  /\ lastRequestAt' = lastRequestAt

\* C23: when a request needs a geolocation read and the provider is absent, or
\* when a read fails (denial or timeout), the message that the location is
\* unavailable is shown, no upstream search is started, and the location cache,
\* every result cache entry, inFlight and lastRequestAt are left unchanged.
C23_LocationUnavailable ==
  [][ /\ (/\ UserRequest
          /\ ~inFlight /\ now - lastRequestAt >= 2500
          /\ ~LocationFresh
          /\ ~geolocation)
           => /\ cards' = renderEmpty("Geolocation not supported by this browser.")
              /\ geoPending' = geoPending
              /\ NothingStartedOrStored
      /\ ev'.op = "geoError" => \A i \in 1..MaxGeo :
           GeoErrorStep(i)
             => /\ cards' = renderEmpty("Location access denied or unavailable.")
                /\ Len(geoPending') = Len(geoPending) - 1
                /\ NothingStartedOrStored ]_vars

\* a read has failed while the search started by another read was in flight,
\* and the flag is still set
C23_Witness ==
  /\ ev.op = "geoError"
  /\ cards = renderEmpty("Location access denied or unavailable.")
  /\ inFlight
  /\ fetches # {}

\* C24: getLocation called while inFlight is true or less than 2500 ms after
\* lastRequestAt invokes no geolocation read, starts no upstream call and leaves
\* the location cache, the result cache, inFlight and lastRequestAt unchanged.
C24_GatedGetLocationIsNoOp ==
  [][ (UserRequest /\ (inFlight \/ now - lastRequestAt < 2500))
        => /\ geoPending' = geoPending
           /\ NothingStartedOrStored ]_vars

\* a request made with the flag clear, less than 2500 ms after the last search
\* started and with no entry for it in the result cache, was dropped
C24_Witness ==
  /\ ev = [op |-> "getLocation", path |-> "dropped"]
  /\ ~inFlight
  /\ now - lastRequestAt < 2500
  /\ cachedLocation # <<>>
  /\ resultCache[LocKey(currentType)] = <<>>

\* C25: saving or removing a place changes nothing but the saved list of the
\* current type: the saved lists of the other types, the location cache, every
\* result cache entry, inFlight and lastRequestAt are unchanged.
C25_SaveRemoveFrame ==
  [][ \A i \in 1..MaxShown :
        (OnSaveStep(i) \/ SwipeLeftStep(i)) =>
          /\ \A t \in Types \ { currentType } : saved'[t] = saved[t]
          /\ cachedLocation' = cachedLocation
          /\ \A k \in Keys : resultCache'[k] = resultCache[k]
          /\ inFlight' = inFlight
          /\ lastRequestAt' = lastRequestAt ]_vars

\* a place was saved for one type while the list of another type, the cached
\* location and a result cache entry were there to be kept
C25_Witness ==
  /\ ev = [op |-> "savePlace", path |-> "saved"]
  /\ \E t \in Types \ { currentType } : saved[t] # <<>>
  /\ cachedLocation # <<>>
  /\ \E k \in Keys : resultCache[k] # <<>>

====
